---- MODULE Spec2Model ----
(***************************************************************************)
(* find_roots_quartic (src/analytical/quartic.rs) as a state machine.      *)
(*                                                                         *)
(* A call is one step: Init draws the five coefficients, and one action   *)
(* per dispatch branch runs the whole function (delegation, final sort_by *)
(* and dedup) and leaves the returned vector in `roots`.                   *)
(*                                                                         *)
(* Numbers.  A value of the float type F is a pair <<n, d>>:               *)
(*   d > 0, gcd(|n|, d) = 1   the finite value n/d, computed exactly;      *)
(*   <<0, 0>>                 NaN, the one non-finite value of the model.  *)
(* Arithmetic is exact rational arithmetic with IEEE NaN propagation, so   *)
(* rounding, overflow to infinity and signed zeros are outside the model.  *)
(* A root that is not rational is not a value of the model: the solvers    *)
(* below return the rational real roots only.                              *)
(*                                                                         *)
(* The solvers find_roots_quartic delegates to (cubic, biquadratic,        *)
(* quartic_depressed and what they call) are not part of the source file;  *)
(* they are modelled from their specified contracts.                       *)
(***************************************************************************)
EXTENDS Integers, Sequences, FiniteSets

VARIABLES a4, a3, a2, a1, a0, pc, path, dep, sub, roots

vars == <<a4, a3, a2, a1, a0, pc, path, dep, sub, roots>>

\* Largest magnitude of an integer coefficient drawn by Init.
MaxCoef == 2

-----------------------------------------------------------------------------
(* The float type F: exact rationals and NaN.                              *)

Abs(n) == IF n < 0 THEN -n ELSE n

Sgn(n) == IF n < 0 THEN -1 ELSE IF n > 0 THEN 1 ELSE 0

Max(m, n) == IF m < n THEN n ELSE m

RECURSIVE Gcd(_, _)
Gcd(m, n) == IF n = 0 THEN m ELSE Gcd(n, m % n)

NaN == <<0, 0>>

IsNaN(x) == x[2] = 0

\* The normal form of n/d, d # 0.
Norm(n, d) ==
    LET g == Gcd(Abs(n), Abs(d))
    IN  <<Sgn(d) * (n \div g), Abs(d) \div g>>

FromInt(n) == <<n, 1>>

Zero == FromInt(0)

One == FromInt(1)

FNeg(x) == IF IsNaN(x) THEN NaN ELSE <<-x[1], x[2]>>

FAdd(x, y) ==
    IF IsNaN(x) \/ IsNaN(y) THEN NaN
    ELSE LET g == Gcd(x[2], y[2])
             l == (x[2] \div g) * y[2]
         IN  Norm(x[1] * (l \div x[2]) + y[1] * (l \div y[2]), l)

FSub(x, y) == FAdd(x, FNeg(y))

FMul(x, y) ==
    IF IsNaN(x) \/ IsNaN(y) THEN NaN
    ELSE LET g1 == Gcd(Abs(x[1]), y[2])
             g2 == Gcd(Abs(y[1]), x[2])
         IN  <<(x[1] \div g1) * (y[1] \div g2), (x[2] \div g2) * (y[2] \div g1)>>

\* x / y.  A division by zero has no finite value; every division of the
\* program is guarded by a test that the divisor is not zero.
FDiv(x, y) ==
    IF IsNaN(x) \/ IsNaN(y) \/ y[1] = 0 THEN NaN
    ELSE FMul(x, <<Sgn(y[1]) * y[2], Abs(y[1])>>)

\* The comparisons of PartialEq / PartialOrd: false whenever a NaN is involved.
FEq(x, y) == ~IsNaN(x) /\ ~IsNaN(y) /\ x = y

FLt(x, y) == ~IsNaN(x) /\ ~IsNaN(y) /\ x[1] * y[2] < y[1] * x[2]

\* a.partial_cmp(b): None when the pair is incomparable.
PartialCmp(x, y) ==
    IF IsNaN(x) \/ IsNaN(y) THEN "None"
    ELSE IF FLt(x, y) THEN "Less"
    ELSE IF FLt(y, x) THEN "Greater"
    ELSE "Equal"

-----------------------------------------------------------------------------
(* The final sort_by and dedup of find_roots_quartic.                      *)

\* The mutant of Compare: unwrap() in place of unwrap_or(Ordering::Equal).
CompareUnwrap(x, y) == PartialCmp(x, y)

\* The closure |a, b| a.partial_cmp(b).unwrap_or(Ordering::Equal).
Compare(x, y) ==
    IF PartialCmp(x, y) = "None" THEN "Equal" ELSE PartialCmp(x, y)

RECURSIVE InsertPos(_, _, _)
\* The slot of x in the sorted prefix v[1..j]: the insertion step of the
\* stable sort moves left while x compares Less.  -1: the closure panicked.
InsertPos(v, x, j) ==
    IF j = 0 THEN 0
    ELSE LET c == Compare(x, v[j])
         IN  IF c = "None" THEN -1
             ELSE IF c = "Less" THEN InsertPos(v, x, j - 1)
             ELSE j

RECURSIVE SortPrefix(_, _)
\* The first i elements of v, sorted: [panicked, v].
SortPrefix(v, i) ==
    IF i = 0 THEN [panicked |-> FALSE, v |-> <<>>]
    ELSE LET s == SortPrefix(v, i - 1)
             j == InsertPos(s.v, v[i], Len(s.v))
         IN  IF s.panicked \/ j < 0 THEN [panicked |-> TRUE, v |-> <<>>]
             ELSE [panicked |-> FALSE,
                   v |-> SubSeq(s.v, 1, j) \o <<v[i]>> \o SubSeq(s.v, j + 1, Len(s.v))]

\* The mutant of SortBy: the sort is left out.
SortByNone(v) == [panicked |-> FALSE, v |-> v]

\* roots.sort_by(...): a stable sort; on vectors this short an insertion sort.
SortBy(v) == SortPrefix(v, Len(v))

RECURSIVE DedupPrefix(_, _)
DedupPrefix(v, i) ==
    IF i = 0 THEN <<>>
    ELSE LET w == DedupPrefix(v, i - 1)
         IN  IF Len(w) > 0 /\ FEq(w[Len(w)], v[i]) THEN w ELSE Append(w, v[i])

\* The mutant of Dedup: nothing is removed.
DedupNone(v) == v

\* roots.dedup(): removes consecutive elements that compare equal (==).
Dedup(v) == DedupPrefix(v, Len(v))

-----------------------------------------------------------------------------
(* Polynomials over F and their rational roots.                            *)

RECURSIVE Pow(_, _)
Pow(b, e) == IF e = 0 THEN 1 ELSE b * Pow(b, e - 1)

RECURSIVE Horner(_, _, _)
\* The value at x of the polynomial with coefficients c[1..i], highest first.
Horner(c, x, i) ==
    IF i = 1 THEN c[1] ELSE FAdd(FMul(Horner(c, x, i - 1), x), c[i])

Eval(c, x) == Horner(c, x, Len(c))

RECURSIVE IntHorner(_, _, _)
IntHorner(e, t, i) ==
    IF i = 0 THEN 1 ELSE IntHorner(e, t, i - 1) * t + e[i]

RECURSIVE LeastScale(_, _)
\* The least s >= k with s^i * m[i] an integer for every i.
LeastScale(m, k) ==
    IF \A i \in 1..Len(m) : Pow(k, i) % m[i][2] = 0 THEN k
    ELSE LeastScale(m, k + 1)

RECURSIVE AbsSum(_, _, _)
\* |e[1]| * b^(i-1) + ... + |e[i]| * b^0
AbsSum(e, b, i) ==
    IF i = 0 THEN 0 ELSE AbsSum(e, b, i - 1) * b + Abs(e[i])

RECURSIVE RootBound(_, _)
\* The least b >= k that is larger than every root of t^n + e[1] t^(n-1) + ... + e[n].
RootBound(e, k) ==
    IF Pow(k, Len(e)) > AbsSum(e, k, Len(e)) THEN k ELSE RootBound(e, k + 1)

\* The rational roots of the polynomial with finite coefficients c (highest
\* first, c[1] # 0): with m the monic form and s the least scale that makes
\* t = s * x a root of a monic integer polynomial, the integer roots t below
\* the root bound.
RationalRoots(c) ==
    LET n == Len(c) - 1
        m == [i \in 1..n |-> FDiv(c[i + 1], c[1])]
        s == LeastScale(m, 1)
        e == [i \in 1..n |-> m[i][1] * (Pow(s, i) \div m[i][2])]
        b == RootBound(e, 1)
    IN  {Norm(t, s) : t \in {u \in (1 - b)..(b - 1) : IntHorner(e, u, n) = 0}}

\* The least element of a non-empty set of finite values.
Least(S) == CHOOSE x \in S : \A y \in S : ~FLt(y, x)

RECURSIVE Ascending(_)
\* The elements of a set of finite values as an ascending sequence.
Ascending(S) ==
    IF S = {} THEN <<>> ELSE <<Least(S)>> \o Ascending(S \ {Least(S)})

RECURSIVE ISqrt(_, _)
\* The least k' >= k with (k' + 1)^2 > n.
ISqrt(n, k) == IF (k + 1) * (k + 1) > n THEN k ELSE ISqrt(n, k + 1)

\* Whether the finite value x >= 0 has a rational square root.
HasSqrt(x) ==
    /\ ISqrt(x[1], 0) * ISqrt(x[1], 0) = x[1]
    /\ ISqrt(x[2], 0) * ISqrt(x[2], 0) = x[2]

FSqrt(x) == <<ISqrt(x[1], 0), ISqrt(x[2], 0)>>

\* v with t added to every element.
MapAdd(v, t) == [i \in 1..Len(v) |-> FAdd(v[i], t)]

Range(v) == {v[i] : i \in 1..Len(v)}

-----------------------------------------------------------------------------
(* The solvers find_roots_quartic delegates to.  Each is the set of the    *)
(* vectors a call may return.                                               *)

\* What a solver of the given degree may return when a NaN reaches the value
\* that decides its branch: NaN roots or no root.
NaNRoots(degree) == {[i \in 1..k |-> NaN] : k \in 0..degree}

find_roots_linear(c1, c0) ==
    IF FEq(c1, Zero) THEN {<<>>} ELSE {<<FNeg(FDiv(c0, c1))>>}

find_roots_quadratic(c2, c1, c0) ==
    IF FEq(c2, Zero) THEN find_roots_linear(c1, c0)
    ELSE LET d == FSub(FMul(c1, c1), FMul(FromInt(4), FMul(c2, c0)))
             den == FMul(FromInt(2), c2)
         IN  IF IsNaN(d) THEN NaNRoots(2)
             ELSE IF FLt(d, Zero) THEN {<<>>}
             ELSE IF FEq(d, Zero) THEN {<<FDiv(FNeg(c1), den)>>}
             ELSE IF ~HasSqrt(d) THEN {<<>>}
             ELSE {Ascending({FDiv(FSub(FNeg(c1), FSqrt(d)), den),
                              FDiv(FAdd(FNeg(c1), FSqrt(d)), den)})}

find_roots_cubic_depressed(p, q) ==
    IF IsNaN(p) \/ IsNaN(q) THEN NaNRoots(3)
    ELSE {Ascending(RationalRoots(<<One, Zero, p, q>>))}

find_roots_cubic(c3, c2, c1, c0) ==
    IF FEq(c3, Zero) THEN find_roots_quadratic(c2, c1, c0)
    ELSE LET a == FDiv(c2, c3)
             b == FDiv(c1, c3)
             c == FDiv(c0, c3)
             p == FSub(b, FDiv(FMul(a, a), FromInt(3)))
             q == FAdd(FSub(FDiv(FMul(FromInt(2), FMul(a, FMul(a, a))), FromInt(27)),
                            FDiv(FMul(a, b), FromInt(3))), c)
         IN  {MapAdd(y, FNeg(FDiv(a, FromInt(3)))) : y \in find_roots_cubic_depressed(p, q)}

\* The x with x^2 = z, for the roots z of the quadratic in z.
SquareRootsOf(zs) ==
    UNION {IF FLt(Zero, z) THEN (IF HasSqrt(z) THEN {FNeg(FSqrt(z)), FSqrt(z)} ELSE {})
           ELSE IF FEq(z, Zero) THEN {Zero}
           ELSE {} : z \in Range(zs)}

find_roots_biquadratic(c4, c2, c0) ==
    IF IsNaN(c4) \/ IsNaN(c2) \/ IsNaN(c0) THEN NaNRoots(4)
    ELSE {Ascending(SquareRootsOf(zs)) : zs \in find_roots_quadratic(c4, c2, c0)}

find_roots_quartic_depressed(p, q, r) ==
    IF FEq(q, Zero) THEN find_roots_biquadratic(One, p, r)
    ELSE IF IsNaN(p) \/ IsNaN(q) \/ IsNaN(r) THEN NaNRoots(4)
    ELSE {Ascending(RationalRoots(<<One, Zero, p, q, r>>))}

-----------------------------------------------------------------------------
(* find_roots_quartic.                                                     *)

\* The mutant of Path: the a0 == 0 test is made first and a4 == 0 is not tested.
PathNoCubic(c4, c3, c2, c1, c0) ==
    IF FEq(c0, Zero) THEN "zero_root"
    ELSE IF FEq(c1, Zero) /\ FEq(c3, Zero) THEN "biquadratic"
    ELSE "general"

\* The branch the if / else-if chain takes.
Path(c4, c3, c2, c1, c0) ==
    IF FEq(c4, Zero) THEN "cubic"
    ELSE IF FEq(c0, Zero) THEN "zero_root"
    ELSE IF FEq(c1, Zero) /\ FEq(c3, Zero) THEN "biquadratic"
    ELSE "general"

\* The mutant of CubicArgs: the coefficients are shifted by one place.
CubicArgsShifted(c4, c3, c2, c1, c0) == <<c4, c3, c2, c1>>

\* The arguments of find_roots_cubic in the a4 == 0 branch.
CubicArgs(c4, c3, c2, c1, c0) == <<c3, c2, c1, c0>>

\* The mutant of ZeroRootArgs: the zero coefficient a0 is passed on.
ZeroRootArgsLow(c4, c3, c2, c1, c0) == <<c3, c2, c1, c0>>

\* The arguments of find_roots_cubic in the a0 == 0 branch.
ZeroRootArgs(c4, c3, c2, c1, c0) == <<c4, c3, c2, c1>>

\* tmp: vec![0] with the roots of the cubic pushed after it.
ZeroRootTmp(cubic_roots) == <<Zero>> \o cubic_roots

\* The arguments of find_roots_biquadratic in the a1 == 0 && a3 == 0 branch.
BiquadraticArgs(c4, c3, c2, c1, c0) == <<c4, c2, c0>>

\* The mutant of Depressed: 16*c*a in place of 64*c*a in r.
DepressedWrongR(c4, c3, c2, c1, c0) ==
    LET k2 == FAdd(One, One)
        k3 == FAdd(k2, One)
        k4 == FAdd(k2, k2)
        k8 == FAdd(k4, k4)
        k16 == FMul(k4, k4)
        k256 == FMul(FMul(k8, k8), k4)
        a == FDiv(c3, c4)
        b == FDiv(c2, c4)
        c == FDiv(c1, c4)
        d == FDiv(c0, c4)
        _a2 == FMul(a, a)
    IN  [p |-> FDiv(FSub(FMul(k8, b), FMul(k3, _a2)), k8),
         q |-> FDiv(FAdd(FSub(FMul(_a2, a), FMul(FMul(k4, a), b)), FMul(k8, c)), k8),
         r |-> FDiv(FAdd(FSub(FSub(FMul(k256, d), FMul(FMul(k3, _a2), _a2)),
                              FMul(FMul(k16, c), a)),
                         FMul(FMul(k16, _a2), b)), k256),
         subst |-> FDiv(FNeg(c3), FMul(k4, c4))]

\* The general branch up to the call of the depressed solver: the constants
\* _2 .. _256, the monic coefficients a, b, c, d, and p, q, r, subst.
Depressed(c4, c3, c2, c1, c0) ==
    LET k2 == FAdd(One, One)
        k3 == FAdd(k2, One)
        k4 == FAdd(k2, k2)
        k8 == FAdd(k4, k4)
        k16 == FMul(k4, k4)
        k64 == FMul(k8, k8)
        k256 == FMul(FMul(k8, k8), k4)
        a == FDiv(c3, c4)
        b == FDiv(c2, c4)
        c == FDiv(c1, c4)
        d == FDiv(c0, c4)
        _a2 == FMul(a, a)
    IN  [p |-> FDiv(FSub(FMul(k8, b), FMul(k3, _a2)), k8),
         q |-> FDiv(FAdd(FSub(FMul(_a2, a), FMul(FMul(k4, a), b)), FMul(k8, c)), k8),
         r |-> FDiv(FAdd(FSub(FSub(FMul(k256, d), FMul(FMul(k3, _a2), _a2)),
                              FMul(FMul(k64, c), a)),
                         FMul(FMul(k16, _a2), b)), k256),
         subst |-> FDiv(FNeg(c3), FMul(k4, c4))]

\* The mutant of XRoots: the substitution is not undone.
XRootsNoShift(y_roots, subst) == y_roots

\* x_roots: y_roots.map_in_place(|y| y + subst).
XRoots(y_roots, subst) == MapAdd(y_roots, subst)

\* What no call has set yet.
NoDep == [p |-> NaN, q |-> NaN, r |-> NaN, subst |-> NaN]

\* The end of every branch: sort_by, dedup, return.
Return(branch, d, delegated, unsorted) ==
    LET s == SortBy(unsorted)
    IN  /\ path' = branch
        /\ dep' = d
        /\ sub' = delegated
        /\ pc' = IF s.panicked THEN "panic" ELSE "done"
        /\ roots' = IF s.panicked THEN <<>> ELSE Dedup(s.v)
        /\ UNCHANGED <<a4, a3, a2, a1, a0>>

\* a4 == 0: the cubic a3*x^3 + a2*x^2 + a1*x + a0.
SolveAsCubic ==
    /\ pc = "call"
    /\ Path(a4, a3, a2, a1, a0) = "cubic"
    /\ LET g == CubicArgs(a4, a3, a2, a1, a0)
       IN  \E v \in find_roots_cubic(g[1], g[2], g[3], g[4]) :
               Return("cubic", NoDep, v, v)

\* a0 == 0: the root 0 and the cubic a4*x^3 + a3*x^2 + a2*x + a1.
SolveWithZeroRoot ==
    /\ pc = "call"
    /\ Path(a4, a3, a2, a1, a0) = "zero_root"
    /\ LET g == ZeroRootArgs(a4, a3, a2, a1, a0)
       IN  \E v \in find_roots_cubic(g[1], g[2], g[3], g[4]) :
               Return("zero_root", NoDep, v, ZeroRootTmp(v))

\* a1 == 0 && a3 == 0: the biquadratic a4*x^4 + a2*x^2 + a0.
SolveAsBiquadratic ==
    /\ pc = "call"
    /\ Path(a4, a3, a2, a1, a0) = "biquadratic"
    /\ LET g == BiquadraticArgs(a4, a3, a2, a1, a0)
       IN  \E v \in find_roots_biquadratic(g[1], g[2], g[3]) :
               Return("biquadratic", NoDep, v, v)

\* Otherwise: the depressed quartic and the substitution undone.
SolveGeneral ==
    /\ pc = "call"
    /\ Path(a4, a3, a2, a1, a0) = "general"
    /\ LET d == Depressed(a4, a3, a2, a1, a0)
       IN  \E v \in find_roots_quartic_depressed(d.p, d.q, d.r) :
               Return("general", d, v, XRoots(v, d.subst))

\* The coefficients a call is made with: integers up to MaxCoef and NaN.
Coefs == {FromInt(n) : n \in -MaxCoef..MaxCoef} \cup {NaN}

\* The calls of test_find_roots_quartic that lie outside the box of Coefs.
TestCalls ==
    {<<FromInt(1), FromInt(-10), FromInt(35), FromInt(-50), FromInt(24)>>,
     <<FromInt(3), FromInt(5), FromInt(-5), FromInt(-5), FromInt(2)>>}

Calls == (Coefs \X Coefs \X Coefs \X Coefs \X Coefs) \cup TestCalls

Init ==
    /\ \E k \in Calls :
           /\ a4 = k[1]
           /\ a3 = k[2]
           /\ a2 = k[3]
           /\ a1 = k[4]
           /\ a0 = k[5]
    /\ pc = "call"
    /\ path = "none"
    /\ dep = NoDep
    /\ sub = <<>>
    /\ roots = <<>>

Next ==
    \/ SolveAsCubic
    \/ SolveWithZeroRoot
    \/ SolveAsBiquadratic
    \/ SolveGeneral

Spec == Init /\ [][Next]_vars

-----------------------------------------------------------------------------
(* Properties of a finished call.                                          *)

Returned == pc = "done"

Finite(x) == ~IsNaN(x)

FiniteCall == Finite(a4) /\ Finite(a3) /\ Finite(a2) /\ Finite(a1) /\ Finite(a0)

NoNaNIn(v) == \A i \in 1..Len(v) : Finite(v[i])

StrictlyAscending(v) == \A i \in 1..(Len(v) - 1) : FLt(v[i], v[i + 1])

\* The polynomial of the call, highest coefficient first.
Quartic == <<a4, a3, a2, a1, a0>>

\* The candidates of the rational root theorem for an integer polynomial:
\* n/d with |n| at most the largest coefficient and d at most the leading one.
Candidates ==
    LET top == Max(Max(Max(Abs(a3[1]), Abs(a2[1])), Abs(a1[1])), Abs(a0[1]))
    IN  {Norm(n, d) : n \in -top..top, d \in 1..Abs(a4[1])}

\* The rational roots of the polynomial of the call (a4 finite and not zero).
RootsOfQuartic == {x \in Candidates : Eval(Quartic, x) = Zero}

\* C1 (as claimed): on every dispatch path the returned sequence is strictly
\* ascending, for every input.
C1_StrictlyAscendingAlways == Returned => StrictlyAscending(roots)

\* C1 (amended): whenever no returned root is NaN, the returned sequence is
\* strictly ascending on every dispatch path: each element is strictly less
\* than the next one, so no two returned roots are equal.
C1_StrictlyAscending ==
    (Returned /\ NoNaNIn(roots)) => StrictlyAscending(roots)

\* A call on the zero-root path whose unsorted vector was out of order and
\* held the root 0 twice.
C1_Witness ==
    /\ Returned /\ path = "zero_root" /\ NoNaNIn(roots)
    /\ Len(sub) = 3 /\ Len(roots) = 3
    /\ FLt(sub[1], Zero) /\ sub[2] = Zero

C3_DegeneratesToCubic ==
    (Returned /\ FEq(a4, Zero)) =>
        /\ path = "cubic"
        /\ sub \in find_roots_cubic(a3, a2, a1, a0)
        /\ Range(roots) = Range(sub)

\* A call with a4 == 0, a0 == 0 and a1 == a3 == 0 that returned a root.
C3_Witness ==
    /\ Returned /\ path = "cubic"
    /\ FEq(a0, Zero) /\ FEq(a1, Zero) /\ FEq(a3, Zero)
    /\ roots = <<Zero>>

\* C4: with a4 # 0 and a0 == 0 the result is the sorted, deduplicated union
\* of the root 0 and the roots of find_roots_cubic(a4, a3, a2, a1); 0 is an
\* element of it exactly once, also when the cubic returns 0 itself.
C4_ZeroRootUnion ==
    (Returned /\ ~FEq(a4, Zero) /\ FEq(a0, Zero)) =>
        /\ path = "zero_root"
        /\ sub \in find_roots_cubic(a4, a3, a2, a1)
        /\ Range(roots) = {Zero} \cup Range(sub)
        /\ Cardinality({i \in 1..Len(roots) : roots[i] = Zero}) = 1
        /\ (NoNaNIn(sub) => roots = Ascending({Zero} \cup Range(sub)))

\* A call on the zero-root path whose cubic returned the root 0 as well.
C4_Witness ==
    /\ Returned /\ path = "zero_root"
    /\ \E i \in 1..Len(sub) : sub[i] = Zero
    /\ Len(roots) = 3

\* What the biquadratic solver may return for the call, as sets of roots.
BiquadraticRoots == {Range(v) : v \in find_roots_biquadratic(a4, a2, a0)}

\* C5 (as claimed): whenever a4 # 0 and a1 == a3 == 0 the call returns
\* exactly the roots of the biquadratic solver for (a4, a2, a0), also for
\* a0 == 0.
C5_BiquadraticAlways ==
    (Returned /\ ~FEq(a4, Zero) /\ FEq(a1, Zero) /\ FEq(a3, Zero)) =>
        Range(roots) \in BiquadraticRoots

\* C5 (amended): whenever a4 # 0, a1 == a3 == 0 and a0 # 0 the call returns
\* exactly the roots of the biquadratic solver for (a4, a2, a0).  For a0 == 0
\* the dispatch takes the zero-root branch before the biquadratic test: the
\* result is 0 together with the roots of find_roots_cubic(a4, 0, a2, 0),
\* which in exact arithmetic is the biquadratic solver's set of roots when
\* a4 and a2 are finite.
C5_Biquadratic ==
    (Returned /\ ~FEq(a4, Zero) /\ FEq(a1, Zero) /\ FEq(a3, Zero)) =>
        IF FEq(a0, Zero)
        THEN /\ path = "zero_root"
             /\ sub \in find_roots_cubic(a4, Zero, a2, Zero)
             /\ Range(roots) = {Zero} \cup Range(sub)
             /\ (Finite(a4) /\ Finite(a2) => Range(roots) \in BiquadraticRoots)
        ELSE /\ path = "biquadratic"
             /\ sub \in find_roots_biquadratic(a4, a2, a0)
             /\ Range(roots) = Range(sub)

\* A call with a1 == a3 == 0 and a0 == 0 that took the zero-root branch and
\* returned three roots.
C5_Witness ==
    /\ Returned /\ path = "zero_root"
    /\ FEq(a1, Zero) /\ FEq(a3, Zero) /\ Finite(a2)
    /\ Len(roots) = 3

\* C6: every call returns at most 4 roots, and at most 3 when a4 == 0.
C6_DegreeBound ==
    Returned =>
        /\ Len(roots) <= 4
        /\ (FEq(a4, Zero) => Len(roots) <= 3)

\* A call on the zero-root path that returned the root 0 and three more.
C6_Witness == Returned /\ path = "zero_root" /\ Len(roots) = 4

\* C7: find_roots_quartic(0, 0, 0, 0, a0) returns the empty sequence for
\* every a0, a0 == 0 included, through the a4 == 0 branch.
C7_IllPosedIsEmpty ==
    (Returned /\ FEq(a4, Zero) /\ FEq(a3, Zero) /\ FEq(a2, Zero) /\ FEq(a1, Zero)) =>
        /\ path = "cubic"
        /\ roots = <<>>

\* The call on the all-zero polynomial has returned.
C7_Witness ==
    /\ Returned
    /\ Quartic = <<Zero, Zero, Zero, Zero, Zero>>
    /\ roots = <<>>

\* The branch of the call has a vector to sort and return.
CanReturn ==
    LET branch == Path(a4, a3, a2, a1, a0)
        d == Depressed(a4, a3, a2, a1, a0)
    IN  \/ branch = "cubic" /\ find_roots_cubic(a3, a2, a1, a0) # {}
        \/ branch = "zero_root" /\ find_roots_cubic(a4, a3, a2, a1) # {}
        \/ branch = "biquadratic" /\ find_roots_biquadratic(a4, a2, a0) # {}
        \/ branch = "general" /\ find_roots_quartic_depressed(d.p, d.q, d.r) # {}

\* C9: no call panics, and every call that has not returned can take a
\* branch: the sort compares an incomparable pair as Equal.
C9_Total ==
    /\ pc \in {"call", "done"}
    /\ (pc = "call" => CanReturn)

\* A call whose sort compared a NaN root with another root and returned.
C9_Witness ==
    /\ Returned
    /\ Len(roots) >= 2
    /\ \E i \in 1..Len(roots) : IsNaN(roots[i])

\* The points at which two polynomials of degree 4 are compared: five
\* distinct points decide that they are equal.
Points == {FromInt(n) : n \in -2..2}

\* C10: on the general path p = b - 3a^2/8, q = a^3/8 - a*b/2 + c,
\* r = -3a^4/256 + a^2*b/16 - a*c/4 + d and subst = -a/4 for a = a3/a4,
\* b = a2/a4, c = a1/a4, d = a0/a4; subst is added to every returned y; the
\* depressed polynomial at y is the quartic at y + subst divided by a4 (the
\* two sides agree at five points, hence everywhere), so y is a root of the
\* one iff y - a/4 is a root of the other; and a4 # 0 on this path.
C10_Depression ==
    (Returned /\ path = "general") =>
        LET a == FDiv(a3, a4)
            b == FDiv(a2, a4)
            c == FDiv(a1, a4)
            d == FDiv(a0, a4)
            aa == FMul(a, a)
        IN  /\ ~FEq(a4, Zero)
            /\ dep.p = FSub(b, FDiv(FMul(FromInt(3), aa), FromInt(8)))
            /\ dep.q = FAdd(FSub(FDiv(FMul(aa, a), FromInt(8)),
                                 FDiv(FMul(a, b), FromInt(2))), c)
            /\ dep.r = FAdd(FSub(FAdd(FDiv(FMul(FromInt(-3), FMul(aa, aa)), FromInt(256)),
                                      FDiv(FMul(aa, b), FromInt(16))),
                                 FDiv(FMul(a, c), FromInt(4))), d)
            /\ dep.subst = FNeg(FDiv(a, FromInt(4)))
            /\ Range(roots) = {FAdd(y, dep.subst) : y \in Range(sub)}
            /\ FiniteCall =>
                   \A x \in Points :
                       FMul(a4, Eval(<<One, Zero, dep.p, dep.q, dep.r>>, FSub(x, dep.subst)))
                           = Eval(Quartic, x)

\* A call on the general path with q # 0 that returned four roots.
C10_Witness ==
    /\ Returned /\ path = "general"
    /\ Finite(dep.q) /\ dep.q # Zero
    /\ Len(roots) = 4

====
